---- MODULE Spec2Model ----
(***************************************************************************)
(* Session orchestration of the chitai reading server: the in-memory       *)
(* SessionState, the websocket command handlers, the connection registry   *)
(* with its grace-period timer, and the persistence rows they touch.       *)
(*                                                                         *)
(* Optional values (Python None) are sequences of length at most one:      *)
(* None is <<>> and a present value v is <<v>>.  Texts are sequences of    *)
(* one-character strings; words are the runs str.split() cuts out of them. *)
(***************************************************************************)
EXTENDS Integers, Sequences, FiniteSets, TLC

VARIABLES
    session,            \* app.state.context.session : SessionState
    clients,            \* app.state.context.clients : set of websocket handles
    disconnect_time,    \* app.state.context.disconnect_time
    grace_timer_task,   \* app.state.context.grace_timer_task
    db_sessions,        \* table sessions      : id -> row
    db_items,           \* table items         : id -> row
    db_session_items,   \* table session_items : id -> row
    next_id,            \* fresh primary keys (uuid4 never repeats)
    now,                \* datetime.now(UTC), in ticks
    sent,               \* what the last step sent to each websocket
    last,               \* the name of the last operation
    timer,              \* a GraceTimer object, its tasks and its callback's calls
    fanout              \* per endpoint: the send loop its coroutine is suspended in

vars == <<session, clients, disconnect_time, grace_timer_task, db_sessions,
          db_items, db_session_items, next_id, now, sent, last, timer, fanout>>

-----------------------------------------------------------------------------
(* Bounds of the model *)

MaxTextLen == 5
MaxDelta == 2
MaxSessions == 2
MaxItems == 2
MaxSessionItems == 3
MaxTime == 1
NumClients == 2
MaxTasks == 3
MaxTimerTime == 3

\* settings.grace_period_seconds, with one tick of `now` standing for 3600 s
grace_period_seconds == 1

-----------------------------------------------------------------------------
(* Values *)

None == <<>>
Some(v) == <<v>>
Val(o) == o[1]

Max(a, b) == IF a >= b THEN a ELSE b
Min(a, b) == IF a <= b THEN a ELSE b

Chars == {"a", "b", " "}
Deltas == (0 - MaxDelta) .. MaxDelta
Clients == 1 .. NumClients
Roles == {"controller", "display", "viewer"}

RECURSIVE TextsOfLen(_)
TextsOfLen(n) ==
    IF n = 0 THEN {<<>>}
    ELSE {Append(t, c) : t \in TextsOfLen(n - 1), c \in Chars}

\* every text of at most MaxTextLen characters
Texts == UNION {TextsOfLen(n) : n \in 0 .. MaxTextLen}

\* the texts the controller sends in the orchestration model
ItemTexts == {<<"a", " ", "b">>, <<" ">>}

-----------------------------------------------------------------------------
(* str.split() *)

RECURSIVE SplitFrom(_, _, _)
SplitFrom(text, i, word) ==
    IF i > Len(text)
    THEN IF word = <<>> THEN <<>> ELSE <<word>>
    ELSE IF text[i] = " "
         THEN IF word = <<>>
              THEN SplitFrom(text, i + 1, <<>>)
              ELSE <<word>> \o SplitFrom(text, i + 1, <<>>)
         ELSE SplitFrom(text, i + 1, Append(word, text[i]))

split(text) == SplitFrom(text, 1, <<>>)

-----------------------------------------------------------------------------
(* SessionState *)

\* the fields session.py declares
SessionState_fields == [words |-> <<>>, current_word_index |-> Some(0)]

\* the fields the handlers read and write that session.py does not declare
SessionState_handler_fields ==
    [session_id |-> None,
     language |-> None,
     current_session_item_id |-> None,
     current_illustration_id |-> None,
     queue |-> <<>>]

SessionState_new == SessionState_handler_fields @@ SessionState_fields

set_text_unsplit(s, text) ==
    [s EXCEPT !.words = IF text = <<>> THEN <<>> ELSE <<text>>,
              !.current_word_index = Some(0)]

set_text(s, text) ==
    [s EXCEPT !.words = split(text), !.current_word_index = Some(0)]

new_index_no_floor(index, delta, n) == Min(index + delta, n - 1)

new_index_no_ceiling(index, delta, n) == Max(0, index + delta)

new_index(index, delta, n) == Max(0, Min(index + delta, n - 1))

advance_index_reports_boundary(s, delta) ==
    IF s.words = <<>>
    THEN [state |-> s, changed |-> FALSE]
    ELSE IF delta = 0
    THEN [state |-> s, changed |-> FALSE]
    ELSE LET index == Val(s.current_word_index)
             new == new_index(index, delta, Len(s.words))
         IN  [state |-> [s EXCEPT !.current_word_index = Some(new)],
              changed |-> TRUE]

advance_index_silent(s, delta) ==
    IF s.words = <<>> \/ delta = 0
    THEN [state |-> s, changed |-> FALSE]
    ELSE [state |-> [s EXCEPT !.current_word_index =
                         Some(new_index(Val(s.current_word_index), delta,
                                        Len(s.words)))],
          changed |-> FALSE]

\* advance_word as session.py has it: a clamped move between word indexes;
\* the result says whether the index changed
advance_index(s, delta) ==
    IF s.words = <<>>
    THEN [state |-> s, changed |-> FALSE]
    ELSE IF delta = 0
    THEN [state |-> s, changed |-> FALSE]
    ELSE LET index == Val(s.current_word_index)
             new == new_index(index, delta, Len(s.words))
         IN  IF new # index
             THEN [state |-> [s EXCEPT !.current_word_index = Some(new)],
                   changed |-> TRUE]
             ELSE [state |-> s, changed |-> FALSE]

advance_word_back_from_completed(s, delta) ==
    IF s.words = <<>>
    THEN [state |-> s, changed |-> FALSE]
    ELSE IF s.current_word_index = None
    THEN IF delta < 0
         THEN [state |-> [s EXCEPT !.current_word_index = Some(Len(s.words) - 1)],
               changed |-> TRUE]
         ELSE [state |-> s, changed |-> FALSE]
    ELSE IF delta > 0 /\ Val(s.current_word_index) = Len(s.words) - 1
    THEN [state |-> [s EXCEPT !.current_word_index = None], changed |-> TRUE]
    ELSE advance_index(s, delta)

\* advance_word as the handlers and the unit tests use it: a boolean result,
\* None as the completed marker, entered by a forward step from the last word
\* and left by no step
advance_word(s, delta) ==
    IF s.words = <<>>
    THEN [state |-> s, changed |-> FALSE]
    ELSE IF s.current_word_index = None
    THEN [state |-> s, changed |-> FALSE]
    ELSE IF delta > 0 /\ Val(s.current_word_index) = Len(s.words) - 1
    THEN [state |-> [s EXCEPT !.current_word_index = None], changed |-> TRUE]
    ELSE advance_index(s, delta)

enqueue_front(s, id) == [s EXCEPT !.queue = <<id>> \o @]

\* session_state.queue.append(session_item.id)
enqueue(s, id) == [s EXCEPT !.queue = Append(@, id)]

pop_id_last(queue) == queue[Len(queue)]

pop_rest_keeps_head(queue) == queue

\* session_state.queue.pop(0): the id it returns and the queue it leaves
pop_id(queue) == Head(queue)

pop_rest(queue) == Tail(queue)

reset_fields_keeps_words(s) == [s EXCEPT !.current_word_index = Some(0)]

\* reset as session.py has it
reset_fields(s) == [s EXCEPT !.words = <<>>, !.current_word_index = Some(0)]

\* reset over every field the handlers use
reset(s) == SessionState_handler_fields @@ reset_fields(s)

-----------------------------------------------------------------------------
(* Persistence rows *)

RUSSIAN == "ru"

\* item_illustrations rows: item 1 is linked to illustration 1
db_item_illustrations == {<<1, 1>>}

db_add(table, id, row) == table @@ (id :> row)

db_delete(table, ids) == [id \in DOMAIN table \ ids |-> table[id]]

\* select(Item).where(Item.text == text, Item.language == language).first()
item_with_text(items, text, language) ==
    LET found == {i \in DOMAIN items :
                     items[i].text = text /\ items[i].language = language}
    IN  IF found = {} THEN None
        ELSE Some(CHOOSE i \in found : \A j \in found : i <= j)

\* the illustrations _select_random_illustration may return for an item
_select_random_illustration(item_id) ==
    LET illustrations == {l[2] : l \in {x \in db_item_illustrations : x[1] = item_id}}
    IN  IF illustrations = {} THEN {None}
        ELSE {Some(i) : i \in illustrations}

-----------------------------------------------------------------------------
(* The state message and its fan-out *)

\* the queue rendered as {session_item_id, text}, rows that are gone skipped
queue_items(s, session_items, items) ==
    LET present == SelectSeq(s.queue, LAMBDA id : id \in DOMAIN session_items)
    IN  [k \in 1 .. Len(present) |->
            [session_item_id |-> present[k],
             text |-> items[session_items[present[k]].item_id].text]]

\* app.py's payload
_build_state_payload(s, session_items, items) ==
    [session_id |-> s.session_id,
     words |-> s.words,
     current_word_index |-> s.current_word_index,
     queue |-> queue_items(s, session_items, items)]

\* websocket/state.py's payload
build_state_payload(s, session_items, items) ==
    [session_id |-> s.session_id,
     language |-> s.language,
     words |-> s.words,
     current_word_index |-> s.current_word_index,
     queue |-> queue_items(s, session_items, items)]

StateMessage(payload) == [type |-> "state", payload |-> payload]

NoSend == [c \in Clients |-> <<>>]

_send_state_fails_silently(payload, websocket) == NoSend

_send_state(payload, websocket) ==
    [c \in Clients |-> IF c = websocket THEN <<StateMessage(payload)>> ELSE <<>>]

_broadcast_state_to_nobody(s, to, session_items, items) == NoSend

_broadcast_state(s, to, session_items, items) ==
    [c \in Clients |->
        IF c \in to
        THEN <<StateMessage(_build_state_payload(s, session_items, items))>>
        ELSE <<>>]

broadcast_state_to_nobody(s, to, session_items, items) == NoSend

broadcast_state(s, to, session_items, items) ==
    [c \in Clients |->
        IF c \in to
        THEN <<StateMessage(build_state_payload(s, session_items, items))>>
        ELSE <<>>]

-----------------------------------------------------------------------------
(* GraceTimer: the object, the asyncio tasks it has created, and the calls  *)
(* its on_expire callback has received                                      *)

\* GraceTimer.__init__: never refreshed, no task
GraceTimer_new ==
    [_last_refresh |-> None, _task |-> None, tasks |-> <<>>, calls |-> <<>>]

\* asyncio.create_task(self._run()): the task sleeps grace_period_seconds from
\* the time `at`; window remembers the refresh that created it
create_task(tasks, at) ==
    Append(tasks, [state |-> "sleeping",
                   must_cancel |-> FALSE,
                   wake_at |-> at + grace_period_seconds,
                   window |-> Some(at)])

task_done_unless_failed(task) == task.state \in {"finished", "cancelled"}

\* Task.done()
task_done(task) == task.state \in {"finished", "cancelled", "failed"}

\* GraceTimer.is_running
is_running(t) == t._task # None /\ ~task_done(t.tasks[Val(t._task)])

cancel_current_forgets(t) == t.tasks

\* if self._task is not None and not self._task.done(): self._task.cancel()
\* Task.cancel() only requests: CancelledError is raised in the task when the
\* event loop next resumes it
cancel_current(t) ==
    IF t._task # None /\ ~task_done(t.tasks[Val(t._task)])
    THEN [t.tasks EXCEPT ![Val(t._task)].must_cancel = TRUE]
    ELSE t.tasks

expiry_argument_is_now(t, at) == Some(at)

\* the argument of self._on_expire(self._last_refresh)
expiry_argument(t, at) == t._last_refresh

\* the calls on_expire received from task k
calls_of(t, k) == SelectSeq(t.calls, LAMBDA call : call.task = k)

-----------------------------------------------------------------------------
(* Initial state *)

Init ==
    /\ session = SessionState_new
    /\ clients = {}
    /\ disconnect_time = None
    /\ grace_timer_task = None
    /\ db_sessions = <<>>
    /\ db_items = <<>>
    /\ db_session_items = <<>>
    /\ next_id = [session |-> 1, item |-> 1, session_item |-> 1]
    /\ now = 0
    /\ sent = NoSend
    /\ last = "init"
    /\ timer = GraceTimer_new
    /\ fanout = [c \in Clients |-> None]

db_vars == <<db_sessions, db_items, db_session_items, next_id>>
timer_vars == <<disconnect_time, grace_timer_task>>

has_active_grace_timer_never == FALSE

\* AppStateContext.has_active_grace_timer: the task is dropped from the context
\* when it finishes, so a task that is present is not done
has_active_grace_timer == grace_timer_task # None

-----------------------------------------------------------------------------
(* app.py: the websocket endpoint *)

\* a client connects with a role
connect(c, role) ==
    /\ c \notin clients
    /\ last' = "connect"
    /\ UNCHANGED timer
    /\ UNCHANGED <<session, db_vars, now>>
    /\ IF role \notin {"controller", "display"}
       THEN /\ sent' = NoSend
            /\ UNCHANGED <<clients, timer_vars>>
       ELSE /\ clients' = clients \cup {c}
            /\ IF has_active_grace_timer
               THEN grace_timer_task' = None /\ disconnect_time' = None
               ELSE UNCHANGED timer_vars
            /\ sent' = _send_state(
                   _build_state_payload(session, db_session_items, db_items), c)

arms_grace_timer_without_session(remaining, s) == remaining = {}

arms_grace_timer_with_clients_left(remaining, s) == s.session_id # None

\* if len(clients) == 0 and session_state.session_id is not None
arms_grace_timer(remaining, s) == remaining = {} /\ s.session_id # None

\* clients.discard(websocket), and the grace timer if nobody is left
discard(c) ==
    /\ clients' = clients \ {c}
    /\ IF arms_grace_timer(clients', session)
       THEN /\ disconnect_time' = Some(now)
            /\ grace_timer_task' = Some(now + grace_period_seconds)
       ELSE UNCHANGED timer_vars

\* the finally clause of the endpoint: the client leaves the registry
endpoint_finally(c) ==
    /\ c \in clients
    /\ UNCHANGED timer
    /\ discard(c)
    /\ sent' = NoSend
    /\ UNCHANGED <<session, db_vars, now>>

\* receive_json raises WebSocketDisconnect: the client has gone
disconnect(c) ==
    /\ last' = "disconnect"
    /\ endpoint_finally(c)

\* receive_json raises ValueError: the frame is not JSON; the endpoint handles
\* it as it handles a disconnect
receive_json_error(c) ==
    /\ last' = "receive_json_error"
    /\ endpoint_finally(c)

-----------------------------------------------------------------------------
(* protocol.py: the inbound messages, as decoded JSON values *)

\* the tags of IncomingMessage
IncomingTags == {"start_session", "end_session", "add_item", "advance_word"}

\* what a client may send: an accepted tag or another one, with a payload that
\* fits the tag's payload model or without one
Data ==
    [type : IncomingTags \cup {"next_item"}, payload : {"valid", "missing"}]

\* incoming_message_adapter.validate_python(data) returns a message; otherwise
\* it raises ValidationError.  A payload is required by add_item and
\* advance_word and ignored by the others
validate_python(data) ==
    /\ data.type \in IncomingTags
    /\ data.type \in {"add_item", "advance_word"} => data.payload = "valid"

_handle_message_invalid_hangs_up(c, data) ==
    /\ ~validate_python(data)
    /\ last' = "_handle_message_invalid"
    /\ endpoint_finally(c)

\* _handle_message with data that does not validate: a warning, and return
_handle_message_invalid(c, data) ==
    /\ c \in clients
    /\ ~validate_python(data)
    /\ last' = "_handle_message_invalid"
    /\ sent' = NoSend
    /\ UNCHANGED <<session, clients, timer_vars, db_vars, now, timer>>

-----------------------------------------------------------------------------
(* app.py: the command handlers *)

end_time_now(ended_at, t) == t

\* end_time = ended_at or datetime.now(UTC)
end_time(ended_at, t) == IF ended_at # None THEN Val(ended_at) ELSE t

already_active_never(s) == FALSE

\* _start_session's guard: a session is already active
already_active(s) == s.session_id # None

\* the rows _end_session writes: the end time, and a completion time on every
\* session item of the session that has none
_end_session_rows(s, ended_at, sessions, session_items, t) ==
    LET sid == Val(s.session_id)
        at == end_time(ended_at, t)
    IN  IF sid \in DOMAIN sessions
        THEN [sessions |-> [sessions EXCEPT ![sid].ended_at = Some(at)],
              session_items |->
                  [i \in DOMAIN session_items |->
                      IF /\ session_items[i].session_id = sid
                         /\ session_items[i].completed_at = None
                      THEN [session_items[i] EXCEPT !.completed_at = Some(at)]
                      ELSE session_items[i]]]
        ELSE [sessions |-> sessions, session_items |-> session_items]

\* _end_session(session_state, clients, ended_at)
_end_session_body(ended_at) ==
    IF session.session_id = None
    THEN /\ sent' = NoSend
         /\ UNCHANGED <<session, db_vars>>
    ELSE LET rows == _end_session_rows(session, ended_at, db_sessions,
                                       db_session_items, now)
         IN  /\ db_sessions' = rows.sessions
             /\ db_session_items' = rows.session_items
             /\ session' = reset(session)
             /\ sent' = _broadcast_state(session', clients, db_session_items', db_items)
             /\ UNCHANGED <<db_items, next_id>>

_start_session ==
    /\ clients # {}
    /\ last' = "_start_session"
    /\ UNCHANGED timer
    /\ UNCHANGED <<clients, timer_vars, now>>
    /\ IF already_active(session)
       THEN /\ sent' = NoSend
            /\ UNCHANGED <<session, db_vars>>
       ELSE /\ next_id.session <= MaxSessions
            /\ db_sessions' = db_add(db_sessions, next_id.session,
                                     [language |-> RUSSIAN, ended_at |-> None])
            /\ next_id' = [next_id EXCEPT !.session = @ + 1]
            /\ session' = [session EXCEPT !.session_id = Some(next_id.session)]
            /\ sent' = _broadcast_state(session', clients, db_session_items, db_items)
            /\ UNCHANGED <<db_items, db_session_items>>

_end_session ==
    /\ clients # {}
    /\ last' = "_end_session"
    /\ UNCHANGED timer
    /\ UNCHANGED <<clients, timer_vars, now>>
    /\ _end_session_body(None)

no_active_session_never(s) == FALSE

\* _add_item's guard: no session is active
no_active_session(s) == s.session_id = None

\* db_session.get(DBSession, session_state.session_id) finds no record
db_session_obj_missing(s, sessions) ==
    s.session_id = None \/ Val(s.session_id) \notin DOMAIN sessions

_add_item(text) ==
    /\ clients # {}
    /\ last' = "_add_item"
    /\ UNCHANGED timer
    /\ UNCHANGED <<clients, timer_vars, now>>
    /\ IF no_active_session(session)
       THEN /\ sent' = NoSend
            /\ UNCHANGED <<session, db_vars>>
       ELSE IF db_session_obj_missing(session, db_sessions)
       THEN /\ session' = reset(session)
            /\ sent' = _broadcast_state(session', clients, db_session_items, db_items)
            /\ UNCHANGED db_vars
       ELSE LET language == db_sessions[Val(session.session_id)].language
                found == item_with_text(db_items, text, language)
                item_id == IF found # None THEN Val(found) ELSE next_id.item
                id == next_id.session_item
                display == session.current_session_item_id = None
            IN  /\ found = None => next_id.item <= MaxItems
                /\ id <= MaxSessionItems
                /\ db_items' = IF found # None THEN db_items
                               ELSE db_add(db_items, item_id,
                                           [text |-> text, language |-> language])
                /\ db_session_items' =
                       db_add(db_session_items, id,
                              [session_id |-> Val(session.session_id),
                               item_id |-> item_id,
                               displayed_at |-> IF display THEN Some(now) ELSE None,
                               completed_at |-> None,
                               illustration_id |-> None])
                /\ next_id' = [next_id EXCEPT
                                  !.item = IF found # None THEN @ ELSE @ + 1,
                                  !.session_item = @ + 1]
                /\ session' =
                       IF display
                       THEN set_text([session EXCEPT !.current_session_item_id = Some(id)],
                                     text)
                       ELSE enqueue(session, id)
                /\ sent' = _broadcast_state(session', clients, db_session_items', db_items')
                /\ UNCHANGED db_sessions

_advance_word(delta) ==
    /\ clients # {}
    /\ LET r == advance_word(session, delta)
       IN  /\ last' = "_advance_word"
           /\ session' = r.state
           /\ sent' = IF r.changed
                      THEN _broadcast_state(r.state, clients, db_session_items, db_items)
                      ELSE NoSend
    /\ UNCHANGED <<clients, timer_vars, now, db_vars, timer>>

_grace_period_timer_only_clears ==
    /\ grace_timer_task # None
    /\ now >= Val(grace_timer_task)
    /\ last' = "_grace_period_timer"
    /\ disconnect_time' = None
    /\ grace_timer_task' = None
    /\ sent' = NoSend
    /\ UNCHANGED <<session, db_vars, clients, now, timer>>

\* the grace period elapses: the sleeping task wakes and ends the session
_grace_period_timer ==
    /\ grace_timer_task # None
    /\ now >= Val(grace_timer_task)
    /\ last' = "_grace_period_timer"
    /\ UNCHANGED timer
    /\ _end_session_body(disconnect_time)
    /\ disconnect_time' = None
    /\ grace_timer_task' = None
    /\ UNCHANGED <<clients, now>>

-----------------------------------------------------------------------------
(* websocket/handlers.py: the command handlers *)

end_session ==
    /\ clients # {}
    /\ last' = "end_session"
    /\ UNCHANGED timer
    /\ UNCHANGED <<clients, timer_vars, now>>
    /\ IF session.session_id = None
       THEN /\ sent' = NoSend
            /\ UNCHANGED <<session, db_vars>>
       ELSE LET sid == Val(session.session_id)
            IN  /\ db_sessions' = IF sid \in DOMAIN db_sessions
                                  THEN [db_sessions EXCEPT ![sid].ended_at = Some(now)]
                                  ELSE db_sessions
                /\ session' = reset(session)
                /\ sent' = broadcast_state(session', clients, db_session_items, db_items)
                /\ UNCHANGED <<db_items, db_session_items, next_id>>

next_item ==
    /\ clients # {}
    /\ last' = "next_item"
    /\ UNCHANGED timer
    /\ UNCHANGED <<clients, timer_vars, now, db_sessions, db_items, next_id>>
    /\ IF session.queue = <<>>
       THEN /\ sent' = broadcast_state(session, clients, db_session_items, db_items)
            /\ UNCHANGED <<session, db_session_items>>
       ELSE LET next_session_item_id == pop_id(session.queue)
                popped == [session EXCEPT !.queue = pop_rest(@)]
            IN  IF next_session_item_id \notin DOMAIN db_session_items
                THEN /\ session' = popped
                     /\ sent' = broadcast_state(session', clients, db_session_items,
                                                db_items)
                     /\ UNCHANGED db_session_items
                ELSE LET item_id == db_session_items[next_session_item_id].item_id
                     IN  IF item_id \notin DOMAIN db_items
                         THEN /\ session' = reset(popped)
                              /\ sent' = broadcast_state(session', clients,
                                                         db_session_items, db_items)
                              /\ UNCHANGED db_session_items
                         ELSE \E illustration_id \in _select_random_illustration(item_id) :
                              /\ db_session_items' =
                                     [db_session_items EXCEPT
                                         ![next_session_item_id].displayed_at = Some(now),
                                         ![next_session_item_id].illustration_id =
                                             illustration_id]
                              /\ session' =
                                     set_text(
                                         [popped EXCEPT
                                             !.current_session_item_id =
                                                 Some(next_session_item_id),
                                             !.current_illustration_id = illustration_id],
                                         db_items[item_id].text)
                              /\ sent' = broadcast_state(session', clients,
                                                         db_session_items', db_items)

\* next_item when the items row behind the head of the queue has been deleted
\* from outside the server (nothing enforces the foreign key): db_session.get(
\* Item, ...) finds nothing, and next_item resets the session state and
\* broadcasts
next_item_item_missing ==
    /\ clients # {}
    /\ session.queue # <<>>
    /\ pop_id(session.queue) \in DOMAIN db_session_items
    /\ db_session_items[pop_id(session.queue)].item_id \in DOMAIN db_items
    /\ last' = "next_item_item_missing"
    /\ db_items' = db_delete(db_items,
                             {db_session_items[pop_id(session.queue)].item_id})
    /\ session' = reset([session EXCEPT !.queue = pop_rest(@)])
    /\ sent' = broadcast_state(session', clients, db_session_items, db_items')
    /\ UNCHANGED <<clients, timer_vars, now, db_sessions, db_session_items,
                   next_id, timer>>

handlers_advance_word(delta) ==
    /\ clients # {}
    /\ LET r == advance_word(session, delta)
           current == r.state.current_session_item_id
       IN  /\ last' = "advance_word"
           /\ session' = r.state
           /\ db_session_items' =
                  IF /\ r.changed
                     /\ r.state.current_word_index = None
                     /\ current # None
                     /\ Val(current) \in DOMAIN db_session_items
                  THEN [db_session_items EXCEPT ![Val(current)].completed_at = Some(now)]
                  ELSE db_session_items
           /\ sent' = IF r.changed
                      THEN broadcast_state(r.state, clients, db_session_items', db_items)
                      ELSE NoSend
    /\ UNCHANGED <<clients, timer_vars, now, db_sessions, db_items, next_id, timer>>

-----------------------------------------------------------------------------
(* routers/sessions.py: the REST endpoint that deletes rows the handlers read *)

delete_session(session_id) ==
    /\ session_id \in DOMAIN db_sessions
    /\ db_sessions' = db_delete(db_sessions, {session_id})
    /\ db_session_items' =
           db_delete(db_session_items,
                     {i \in DOMAIN db_session_items :
                         db_session_items[i].session_id = session_id})
    /\ last' = "delete_session"
    /\ UNCHANGED timer
    /\ sent' = NoSend
    /\ UNCHANGED <<session, clients, timer_vars, now, db_items, next_id>>

-----------------------------------------------------------------------------
(* Time *)

Tick ==
    /\ now < MaxTime
    /\ now' = now + 1
    /\ last' = "tick"
    /\ UNCHANGED timer
    /\ sent' = NoSend
    /\ UNCHANGED <<session, clients, timer_vars, db_vars>>

-----------------------------------------------------------------------------
(* The orchestration specification *)

\* every send of a step completes within the step: no coroutine is left
\* suspended in a send loop
serial == UNCHANGED fanout

Next ==
    \/ \E c \in Clients, role \in Roles : connect(c, role) /\ serial
    \/ \E c \in Clients : disconnect(c) /\ serial
    \/ \E c \in Clients : receive_json_error(c) /\ serial
    \/ \E c \in Clients, data \in Data : _handle_message_invalid(c, data) /\ serial
    \/ _start_session /\ serial
    \/ _end_session /\ serial
    \/ \E text \in ItemTexts : _add_item(text) /\ serial
    \/ \E delta \in Deltas : _advance_word(delta) /\ serial
    \/ _grace_period_timer /\ serial
    \/ end_session /\ serial
    \/ next_item /\ serial
    \/ next_item_item_missing /\ serial
    \/ \E delta \in Deltas : handlers_advance_word(delta) /\ serial
    \/ \E session_id \in 1 .. MaxSessions : delete_session(session_id) /\ serial
    \/ Tick /\ serial

Spec == Init /\ [][Next]_vars

\* the clock runs, and the event loop resumes the timer task once its sleep
\* has elapsed
SpecLive ==
    Spec /\ WF_vars(Tick /\ serial) /\ WF_vars(_grace_period_timer /\ serial)

-----------------------------------------------------------------------------
(* The endpoints as coroutines: a handler is suspended in every send it      *)
(* awaits, and the other endpoints and the timer run meanwhile               *)

\* the endpoint of c is in its receive loop, awaiting receive_json
receiving(c) == c \in clients /\ fanout[c] = None

\* no suspended send loop refers to the websocket that last had the handle c
unreferenced(c) ==
    \A d \in Clients :
        fanout[d] # None => c \notin Val(fanout[d]).visited \cup {Val(fanout[d]).to}

\* what `await websocket.send_json(...)` ends in
SendOutcomes == {"sent", "WebSocketDisconnect", "RuntimeError"}

caught_disconnect_only(outcome) == outcome = "WebSocketDisconnect"

\* except (WebSocketDisconnect, RuntimeError) around the send
caught(outcome) == outcome \in {"WebSocketDisconnect", "RuntimeError"}

message_rebuilt(b) ==
    StateMessage(_build_state_payload(session, db_session_items, db_items))

\* the message a suspended loop sends: the payload _broadcast_state built
\* before the loop
message_sent(b) == b.message

\* _broadcast_state as far as its first await: the payload is built, the loop
\* over the registry takes its first client and suspends in the send to it.
\* A suspended loop holds its message, the client it is sending to, the
\* clients it has passed and the size the registry had when it began
suspend_in_broadcast(c) ==
    IF sent' = NoSend
    THEN UNCHANGED fanout
    ELSE \E to \in clients' :
             fanout' = [fanout EXCEPT ![c] =
                           Some([message |-> sent'[to][1],
                                 to |-> to,
                                 visited |-> {},
                                 used |-> Cardinality(clients'),
                                 over |-> "clients"])]

\* the receive loop of c takes a message and runs its handler up to the
\* handler's first await, or to its end if it sends nothing
_handle_message(c, command) ==
    /\ receiving(c)
    /\ command
    /\ suspend_in_broadcast(c)

\* the endpoint from accept to the await of the first state message
websocket_endpoint(c, role) ==
    /\ unreferenced(c)
    /\ connect(c, role)
    /\ fanout' = IF c \in clients'
                  THEN [fanout EXCEPT ![c] =
                           Some([message |-> sent'[c][1],
                                 to |-> c,
                                 visited |-> {},
                                 used |-> 0,
                                 over |-> "self"])]
                  ELSE fanout

\* the send the coroutine of c awaits returns or raises, and the coroutine runs
\* on to its next await: a failed send is logged; the loop asks the registry
\* for its next client, which raises RuntimeError (Set changed size during
\* iteration) if the registry has another size than when the loop began; an
\* exception that leaves the loop leaves the handler and reaches the
\* endpoint's except clause and finally clause
send_json_returns(c, outcome) ==
    /\ fanout[c] # None
    /\ LET b == Val(fanout[c])
           passed == b.visited \cup {b.to}
           raised == outcome # "sent" /\ ~caught(outcome)
           changed_size == Cardinality(clients) # b.used
       IN  /\ outcome = "sent" => b.to \in clients
           /\ sent' = IF outcome = "sent"
                      THEN [x \in Clients |->
                               IF x = b.to THEN <<message_sent(b)>> ELSE <<>>]
                      ELSE NoSend
           /\ last' = IF outcome = "sent" THEN "send_json" ELSE "send_json_failed"
           /\ IF b.over = "self"
              THEN /\ fanout' = [fanout EXCEPT ![c] = None]
                   /\ UNCHANGED <<clients, timer_vars>>
              ELSE IF raised \/ changed_size
              THEN /\ fanout' = [fanout EXCEPT ![c] = None]
                   /\ discard(c)
              ELSE /\ UNCHANGED <<clients, timer_vars>>
                   /\ IF clients \ passed = {}
                      THEN fanout' = [fanout EXCEPT ![c] = None]
                      ELSE \E to \in clients \ passed :
                               fanout' = [fanout EXCEPT ![c] =
                                             Some([b EXCEPT !.to = to,
                                                            !.visited = passed])]
    /\ UNCHANGED <<session, db_vars, now, timer>>

NextAsync ==
    \/ \E c \in Clients, role \in Roles : websocket_endpoint(c, role)
    \/ \E c \in Clients : receiving(c) /\ disconnect(c) /\ UNCHANGED fanout
    \/ \E c \in Clients : _handle_message(c, _start_session)
    \/ \E c \in Clients : _handle_message(c, _end_session)
    \/ \E c \in Clients, text \in ItemTexts : _handle_message(c, _add_item(text))
    \/ \E c \in Clients, delta \in Deltas : _handle_message(c, _advance_word(delta))
    \/ \E c \in Clients, outcome \in SendOutcomes : send_json_returns(c, outcome)
    \/ _grace_period_timer /\ UNCHANGED fanout
    \/ Tick /\ UNCHANGED fanout

SpecAsync == Init /\ [][NextAsync]_vars

-----------------------------------------------------------------------------
(* SessionState on its own: its operations applied in any order *)

\* what the last operation was, the delta it was given and the cursor before it
called(op, delta) ==
    [op |-> op, delta |-> delta, before |-> session.current_word_index]

InitSession ==
    /\ session = SessionState_new
    /\ clients = {}
    /\ disconnect_time = None
    /\ grace_timer_task = None
    /\ db_sessions = <<>>
    /\ db_items = <<>>
    /\ db_session_items = <<>>
    /\ next_id = [session |-> 1, item |-> 1, session_item |-> 1]
    /\ now = 0
    /\ sent = NoSend
    /\ last = [op |-> "init", delta |-> 0, before |-> None]
    /\ timer = GraceTimer_new
    /\ fanout = [c \in Clients |-> None]

session_frame ==
    UNCHANGED <<clients, timer_vars, db_vars, now, sent, timer, fanout>>

do_set_text(text) ==
    /\ session' = set_text(session, text)
    /\ last' = called("set_text", 0)
    /\ session_frame

do_advance_word(delta) ==
    /\ session' = advance_word(session, delta).state
    /\ last' = called("advance_word", delta)
    /\ session_frame

do_reset ==
    /\ session' = reset(session)
    /\ last' = called("reset", 0)
    /\ session_frame

NextSession ==
    \/ \E text \in Texts : do_set_text(text)
    \/ \E delta \in Deltas : do_advance_word(delta)
    \/ do_reset

SpecSession == InitSession /\ [][NextSession]_vars

-----------------------------------------------------------------------------
(* GraceTimer on its own: refresh and stop called in any order while the     *)
(* event loop runs its tasks and time passes                                  *)

timer_frame ==
    UNCHANGED <<session, clients, timer_vars, db_vars, sent, fanout>>

refresh ==
    /\ Len(timer.tasks) < MaxTasks
    /\ now + grace_period_seconds <= MaxTimerTime
    /\ timer' = [timer EXCEPT !._last_refresh = Some(now),
                              !.tasks = create_task(cancel_current(timer), now),
                              !._task = Some(Len(timer.tasks) + 1)]
    /\ last' = "refresh"
    /\ UNCHANGED now
    /\ timer_frame

stop ==
    /\ timer' = [timer EXCEPT !.tasks = cancel_current(timer), !._task = None]
    /\ last' = "stop"
    /\ UNCHANGED now
    /\ timer_frame

\* task k is resumed after its sleep and calls on_expire, which runs up to its
\* first await
_run_expire(k) ==
    /\ k \in 1 .. Len(timer.tasks)
    /\ timer.tasks[k].state = "sleeping"
    /\ ~timer.tasks[k].must_cancel
    /\ now >= timer.tasks[k].wake_at
    /\ timer' = [timer EXCEPT
                    !.tasks[k].state = "in_callback",
                    !.calls = Append(@, [task |-> k,
                                         timestamp |-> expiry_argument(timer, now)])]
    /\ last' = "_run_expire"
    /\ UNCHANGED now
    /\ timer_frame

\* on_expire returns to task k, which clears the handle and ends
_run_finish(k) ==
    /\ k \in 1 .. Len(timer.tasks)
    /\ timer.tasks[k].state = "in_callback"
    /\ ~timer.tasks[k].must_cancel
    /\ timer' = [timer EXCEPT !.tasks[k].state = "finished", !._task = None]
    /\ last' = "_run_finish"
    /\ UNCHANGED now
    /\ timer_frame

\* on_expire raises: the exception leaves _run before the handle is cleared
_run_fail(k) ==
    /\ k \in 1 .. Len(timer.tasks)
    /\ timer.tasks[k].state = "in_callback"
    /\ ~timer.tasks[k].must_cancel
    /\ timer' = [timer EXCEPT !.tasks[k].state = "failed"]
    /\ last' = "_run_fail"
    /\ UNCHANGED now
    /\ timer_frame

\* task k is resumed with a cancellation pending: CancelledError is raised at
\* the await it was suspended in and re-raised by _run
_run_cancelled(k) ==
    /\ k \in 1 .. Len(timer.tasks)
    /\ timer.tasks[k].state \in {"sleeping", "in_callback"}
    /\ timer.tasks[k].must_cancel
    /\ timer' = [timer EXCEPT !.tasks[k].state = "cancelled"]
    /\ last' = "_run_cancelled"
    /\ UNCHANGED now
    /\ timer_frame

timer_tick ==
    /\ now < MaxTimerTime
    /\ now' = now + 1
    /\ last' = "tick"
    /\ UNCHANGED timer
    /\ timer_frame

NextTimer ==
    \/ refresh
    \/ stop
    \/ \E k \in 1 .. MaxTasks : _run_expire(k)
    \/ \E k \in 1 .. MaxTasks : _run_finish(k)
    \/ \E k \in 1 .. MaxTasks : _run_fail(k)
    \/ \E k \in 1 .. MaxTasks : _run_cancelled(k)
    \/ timer_tick

SpecTimer == Init /\ [][NextTimer]_vars

\* the event loop resumes a task whose sleep has elapsed, and the clock runs
SpecTimerLive ==
    /\ SpecTimer
    /\ WF_vars(timer_tick)
    /\ \A k \in 1 .. MaxTasks : WF_vars(_run_expire(k))

-----------------------------------------------------------------------------
(* Properties of SessionState (checked under SpecSession) *)

is_index(s) == s.current_word_index # None

last_index(s) == Len(s.words) - 1

\* C1: whenever words is non-empty, the cursor is the completed marker or an
\* index with 0 <= cursor <= len(words) - 1, after any sequence of set_text,
\* advance_word (any delta) and reset.
C1_CursorInRange ==
    session.words # <<>> =>
        \/ session.current_word_index = None
        \/ /\ Val(session.current_word_index) >= 0
           /\ Val(session.current_word_index) <= last_index(session)

\* a backward step that would have gone below the first word was held at it
C1_Witness ==
    /\ last.op = "advance_word"
    /\ last.before # None
    /\ Val(last.before) + last.delta < 0
    /\ Len(session.words) >= 2
    /\ session.current_word_index = Some(0)

-----------------------------------------------------------------------------
(* Properties of the orchestration (checked under Spec) *)

active(s) == s.session_id # None

\* every connected client is sent one state message of an inactive session,
\* and nobody else is sent anything
inactive_snapshot_broadcast(to, messages) ==
    \A c \in Clients :
        IF c \in to
        THEN /\ Len(messages[c]) = 1
             /\ messages[c][1].type = "state"
             /\ messages[c][1].payload.session_id = None
             /\ messages[c][1].payload.words = <<>>
             /\ messages[c][1].payload.queue = <<>>
        ELSE messages[c] = <<>>

C3_CurrentNotQueued ==
    session.current_session_item_id # None =>
        \A k \in 1 .. Len(session.queue) :
            session.queue[k] # Val(session.current_session_item_id)

\* next_item moved the head of a two-element queue to the display
C3_Witness ==
    /\ last = "next_item"
    /\ session.current_session_item_id # None
    /\ session.queue # <<>>
    /\ Val(session.current_session_item_id) \in DOMAIN db_session_items
    /\ db_session_items[Val(session.current_session_item_id)].displayed_at # None
    /\ \A k \in 1 .. Len(session.queue) :
           Val(session.current_session_item_id) < session.queue[k]

C6_AddItemDisplaysImmediately ==
    [][\A text \in ItemTexts :
          (/\ active(session)
           /\ Val(session.session_id) \in DOMAIN db_sessions
           /\ session.current_session_item_id = None
           /\ _add_item(text))
          => LET id == next_id.session_item
             IN  /\ id \notin DOMAIN db_session_items
                 /\ id \in DOMAIN db_session_items'
                 /\ session'.current_session_item_id = Some(id)
                 /\ db_session_items'[id].displayed_at = Some(now)
                 /\ db_items'[db_session_items'[id].item_id].text = text
                 /\ session'.words = split(text)
                 /\ session'.current_word_index = Some(0)
                 /\ session.queue = <<>>
                 /\ session'.queue = <<>>
      ]_vars

\* add_item put a two-word text on an empty display
C6_Witness ==
    /\ last = "_add_item"
    /\ session.current_session_item_id # None
    /\ session.queue = <<>>
    /\ session.words = << <<"a">>, <<"b">> >>
    /\ session.current_word_index = Some(0)
    /\ Val(session.current_session_item_id) \in DOMAIN db_session_items
    /\ db_session_items[Val(session.current_session_item_id)].displayed_at # None

\* C7: add_item while a session item is current (also when its cursor is the
\* completed marker) leaves words, cursor and current_session_item_id unchanged
\* and appends exactly one new session item id, with no display timestamp, to
\* the tail of the queue.
C7_AddItemQueuesWhenDisplayed ==
    [][\A text \in ItemTexts :
          (/\ active(session)
           /\ Val(session.session_id) \in DOMAIN db_sessions
           /\ session.current_session_item_id # None
           /\ _add_item(text))
          => LET id == next_id.session_item
             IN  /\ session'.words = session.words
                 /\ session'.current_word_index = session.current_word_index
                 /\ session'.current_session_item_id =
                        session.current_session_item_id
                 /\ session'.queue = Append(session.queue, id)
                 /\ id \notin DOMAIN db_session_items
                 /\ DOMAIN db_session_items' = DOMAIN db_session_items \cup {id}
                 /\ db_session_items'[id].displayed_at = None
      ]_vars

\* add_item queued a second waiting item behind a completed current item
C7_Witness ==
    /\ last = "_add_item"
    /\ session.words # <<>>
    /\ session.current_word_index = None
    /\ session.current_session_item_id # None
    /\ Len(session.queue) = 2
    /\ session.queue[1] < session.queue[2]
    /\ db_session_items[session.queue[2]].displayed_at = None

\* C8: next_item on a non-empty queue removes exactly the head of the queue,
\* which is the waiting item added earliest, makes it current_session_item_id
\* with its display timestamp set, sets words to the tokens of that item's text
\* and the cursor to 0; the rest of the queue keeps its order.
C8_NextItemIsFifo ==
    [][(/\ session.queue # <<>>
        /\ Head(session.queue) \in DOMAIN db_session_items
        /\ db_session_items[Head(session.queue)].item_id \in DOMAIN db_items
        /\ last' = "next_item")
       => LET id == Head(session.queue)
          IN  /\ \A k \in 2 .. Len(session.queue) : id < session.queue[k]
              /\ session'.queue = Tail(session.queue)
              /\ session'.current_session_item_id = Some(id)
              /\ db_session_items'[id].displayed_at = Some(now)
              /\ session'.words = split(db_items[db_session_items[id].item_id].text)
              /\ session'.current_word_index = Some(0)
      ]_vars

\* next_item took the first of two waiting items and left the second waiting
C8_Witness ==
    /\ last = "next_item"
    /\ session.current_session_item_id = Some(2)
    /\ session.queue = <<3>>
    /\ db_session_items[2].displayed_at # None
    /\ db_session_items[3].displayed_at = None
    /\ session.current_word_index = Some(0)

\* C9: start_session received while a session is already active is a no-op:
\* session_id (and the rest of the session state) is unchanged, no persisted
\* session record is created, and no state message is sent to any client.
C9_DuplicateStartIsNoOp ==
    [][(active(session) /\ last' = "_start_session") =>
          /\ session' = session
          /\ db_sessions' = db_sessions
          /\ next_id' = next_id
          /\ sent' = NoSend
      ]_vars

\* a start_session arrived in an active session whose record is the only one
C9_Witness ==
    /\ last = "_start_session"
    /\ active(session)
    /\ sent = NoSend
    /\ DOMAIN db_sessions = {Val(session.session_id)}

C11_EndSessionKeepsItemsIncomplete ==
    [][(active(session) /\ last' \in {"_end_session", "end_session"}) =>
          \A i \in DOMAIN db_session_items :
              (/\ db_session_items[i].session_id = Val(session.session_id)
               /\ db_session_items[i].completed_at = None)
              => /\ i \in DOMAIN db_session_items'
                 /\ db_session_items'[i].completed_at = None
                 /\ db_session_items'[i].displayed_at =
                        db_session_items[i].displayed_at
      ]_vars

\* C12: end_session and add_item received while no session is active change
\* nothing: the session state is unchanged, no item, session item or session
\* record is created or modified, and no state message is sent.
C12_NoSessionCommandsAreNoOps ==
    [][(~active(session)
        /\ last' \in {"_end_session", "end_session", "_add_item"}) =>
          /\ session' = session
          /\ db_sessions' = db_sessions
          /\ db_items' = db_items
          /\ db_session_items' = db_session_items
          /\ next_id' = next_id
          /\ sent' = NoSend
      ]_vars

\* an add_item arrived after the only session had ended and was ignored
C12_Witness ==
    /\ last = "_add_item"
    /\ ~active(session)
    /\ sent = NoSend
    /\ clients # {}
    /\ DOMAIN db_sessions = {1}
    /\ db_sessions[1].ended_at # None

\* the state messages one step sent carry this cursor to exactly these clients
cursor_broadcast(to, messages, cursor) ==
    \A c \in Clients :
        IF c \in to
        THEN /\ Len(messages[c]) = 1
             /\ messages[c][1].type = "state"
             /\ messages[c][1].payload.current_word_index = cursor
        ELSE messages[c] = <<>>

C15_NextItemCompletesReplaced ==
    [][(/\ last' = "next_item"
        /\ session.queue # <<>>
        /\ Head(session.queue) \in DOMAIN db_session_items
        /\ db_session_items[Head(session.queue)].item_id \in DOMAIN db_items
        /\ session.current_session_item_id # None
        /\ Val(session.current_session_item_id) \in DOMAIN db_session_items)
       => LET replaced == Val(session.current_session_item_id)
              shown == Head(session.queue)
          IN  /\ db_session_items'[replaced].completed_at # None
              /\ db_session_items'[shown].displayed_at # None
              /\ db_session_items'[shown].completed_at = None
      ]_vars

\* every connected client is sent one state message carrying this session
\* state, and nobody else is sent anything
snapshot_broadcast(to, messages, s) ==
    \A c \in Clients :
        IF c \in to
        THEN /\ Len(messages[c]) = 1
             /\ messages[c][1].type = "state"
             /\ messages[c][1].payload.session_id = s.session_id
             /\ messages[c][1].payload.words = s.words
             /\ messages[c][1].payload.current_word_index = s.current_word_index
             /\ Len(messages[c][1].payload.queue) <= Len(s.queue)
        ELSE messages[c] = <<>>

C18_NextItemInconsistencyResets ==
    [][(/\ last' = "next_item"
        /\ session.queue # <<>>
        /\ \/ Head(session.queue) \notin DOMAIN db_session_items
           \/ db_session_items[Head(session.queue)].item_id \notin DOMAIN db_items)
       => /\ session' = reset(session)
          /\ ~active(session')
          /\ inactive_snapshot_broadcast(clients, sent')
      ]_vars

-----------------------------------------------------------------------------
(* Properties of GraceTimer (checked under SpecTimer and SpecTimerLive) *)

\* the window of task k is the latest one: no refresh() followed it
latest_window(k) == Len(timer.tasks) = k

\* C19: a grace-timer window started by refresh() and followed by no refresh()
\* or stop() invokes the expiry callback exactly once, passing the timestamp
\* recorded by that refresh(), and the timer is idle afterwards.  Every window
\* is eventually either cancelled or expired into one callback invocation; no
\* window invokes the callback twice; the invocation carries the window's
\* refresh timestamp; and once the callback of the latest window has returned
\* or raised, is_running is false.
C19_ExpiryCallsBackOnce ==
    /\ [](\A k \in 1 .. Len(timer.tasks) :
              /\ Len(calls_of(timer, k)) <= 1
              /\ \A i \in 1 .. Len(calls_of(timer, k)) :
                     calls_of(timer, k)[i].timestamp = timer.tasks[k].window
              /\ timer.tasks[k].state \in {"in_callback", "finished", "failed"}
                 => Len(calls_of(timer, k)) = 1
              /\ (timer.tasks[k].state \in {"finished", "failed"}
                  /\ latest_window(k))
                 => ~is_running(timer))
    /\ \A k \in 1 .. MaxTasks :
           (k <= Len(timer.tasks))
           ~> (/\ k <= Len(timer.tasks)
               /\ \/ timer.tasks[k].must_cancel
                  \/ Len(calls_of(timer, k)) = 1)

\* a window ran to expiry undisturbed: one call with its refresh time, then idle
C19_Witness ==
    /\ last = "_run_finish"
    /\ Len(timer.tasks) = 1
    /\ timer.tasks[1].state = "finished"
    /\ ~timer.tasks[1].must_cancel
    /\ timer.calls = <<[task |-> 1, timestamp |-> Some(0)]>>
    /\ timer._last_refresh = Some(0)
    /\ now >= 1
    /\ ~is_running(timer)

\* C20: a grace-timer window that is cancelled before its duration elapses, by
\* stop() or by a later refresh(), never invokes the callback; every callback
\* invocation belongs to a distinct window that ran to expiry uncancelled, so
\* there are at most as many invocations as such windows; and an invocation
\* after refresh(); refresh() comes from the latest window and carries the
\* latest refresh's timestamp.
C20_CancelledWindowNeverCallsBack ==
    [][/\ \A k \in 1 .. Len(timer.tasks) :
              /\ (timer.tasks[k].must_cancel \/ timer.tasks[k].state = "cancelled")
                 => /\ calls_of(timer', k) = calls_of(timer, k)
                    /\ timer'.tasks[k].state \in {timer.tasks[k].state, "cancelled"}
                    /\ timer'.tasks[k].must_cancel = timer.tasks[k].must_cancel
              /\ (timer.tasks[k].state = "sleeping" /\ now < timer.tasks[k].wake_at)
                 => calls_of(timer', k) = <<>>
       /\ timer'.calls # timer.calls =>
              \E k \in 1 .. Len(timer.tasks) :
                  /\ timer.tasks[k].state = "sleeping"
                  /\ ~timer.tasks[k].must_cancel
                  /\ now >= timer.tasks[k].wake_at
                  /\ calls_of(timer, k) = <<>>
                  /\ latest_window(k)
                  /\ timer'.calls =
                         Append(timer.calls,
                                [task |-> k, timestamp |-> timer.tasks[k].window])
                  /\ timer.tasks[k].window = timer._last_refresh
      ]_vars

\* refresh(); refresh(): the first window was cancelled and never called back,
\* the second expired and passed the second refresh's timestamp
C20_Witness ==
    /\ last = "_run_expire"
    /\ Len(timer.tasks) = 2
    /\ timer.tasks[1].must_cancel
    /\ timer.tasks[1].window = Some(0)
    /\ timer.tasks[2].window = Some(1)
    /\ timer.calls = <<[task |-> 2, timestamp |-> Some(1)]>>

\* C21: cancellation of the grace timer is race-free with its own expiry: the
\* timer is already idle (is_running false) when the expiry callback starts
\* executing, so a stop() or refresh() issued while the callback is in progress
\* neither interrupts the callback part-way nor makes the callback run a second
\* time for that window.
C21_CallbackRunsIdleAndUninterrupted ==
    [][\A k \in 1 .. Len(timer.tasks) :
           /\ timer'.tasks[k].state = "in_callback" => ~is_running(timer')
           /\ timer.tasks[k].state = "in_callback"
              => /\ timer'.tasks[k].state \in {"in_callback", "finished", "failed"}
                 /\ ~timer'.tasks[k].must_cancel
           /\ Len(calls_of(timer', k)) <= 1
      ]_vars

\* a countdown is armed and has neither fired nor been cancelled: a task is in
\* its sleep with no cancellation requested
countdown_pending(t) ==
    \E k \in 1 .. Len(t.tasks) :
        t.tasks[k].state = "sleeping" /\ ~t.tasks[k].must_cancel

\* C33: GraceTimer.is_running is true exactly while a countdown is armed and
\* has neither fired nor been cancelled: it is false before the first
\* refresh(), true after refresh(), false after stop() and after expiry;
\* stop() is idempotent, so calling it when idle or twice in a row leaves the
\* timer idle and raises nothing.
C33_IsRunningIffCountdownPending ==
    /\ [](is_running(timer) <=> countdown_pending(timer))
    /\ [](timer.tasks = <<>> => ~is_running(timer))
    /\ [][/\ last' = "refresh" => is_running(timer')
          /\ last' = "stop" => ~is_running(timer')
          /\ (last' = "stop" /\ ~is_running(timer))
             => /\ timer'._task = None
                /\ timer'.tasks = timer.tasks
                /\ timer'.calls = timer.calls
          /\ last' \in {"_run_finish", "_run_fail"} => ~is_running(timer')
         ]_vars
    /\ [](ENABLED stop)

\* C34: if the expiry callback fails, it is not invoked again for that window
\* and the timer object remains usable: is_running is false afterwards and a
\* later refresh() arms a new countdown that can expire and invoke the callback
\* normally.  A task whose callback raised stays failed and receives no further
\* call; while it is the task the handle refers to, the timer is idle; refresh()
\* then leaves it as it is and creates a sleeping task for the new window, which
\* the handle refers to; and when that task expires the callback is called once
\* more, with the new refresh's timestamp.
C34_FailedCallbackLeavesTimerUsable ==
    [][\A k \in 1 .. Len(timer.tasks) :
           /\ (timer.tasks[k].state = "in_callback" /\ timer'.tasks[k].state = "failed")
              => /\ ~is_running(timer')
                 /\ timer'.calls = timer.calls
           /\ timer.tasks[k].state = "failed"
              => /\ timer'.tasks[k] = timer.tasks[k]
                 /\ calls_of(timer', k) = calls_of(timer, k)
                 /\ Len(calls_of(timer, k)) = 1
                 /\ timer._task = Some(k) => ~is_running(timer)
                 /\ (timer._task = Some(k) /\ last' = "refresh")
                    => LET n == Len(timer.tasks) + 1
                       IN  /\ Len(timer'.tasks) = n
                           /\ timer'._task = Some(n)
                           /\ timer'.tasks[n].state = "sleeping"
                           /\ ~timer'.tasks[n].must_cancel
                           /\ timer'.tasks[n].window = Some(now)
                           /\ is_running(timer')
                 /\ \A n \in k + 1 .. Len(timer.tasks) :
                        (/\ timer.tasks[n].state = "sleeping"
                         /\ timer'.tasks[n].state = "in_callback")
                        => timer'.calls =
                               Append(timer.calls,
                                      [task |-> n, timestamp |-> timer.tasks[n].window])
      ]_vars

\* the callback of the first window raised; the timer was refreshed at time 1
\* and the second window has expired, called back with that time and returned
C34_Witness ==
    /\ last = "_run_finish"
    /\ Len(timer.tasks) = 2
    /\ timer.tasks[1].state = "failed"
    /\ ~timer.tasks[1].must_cancel
    /\ timer.tasks[2].state = "finished"
    /\ timer.calls = <<[task |-> 1, timestamp |-> Some(0)],
                       [task |-> 2, timestamp |-> Some(1)]>>
    /\ ~is_running(timer)

\* C37: at any time at most one grace-timer countdown is pending and it is the
\* one the timer's task handle refers to: arming a new countdown never leaves an
\* older one running unreferenced, and the completion of an earlier expiry never
\* clears the handle of a countdown started later (so whenever a countdown is
\* pending, is_running is true and stop() cancels it).
C37_OnePendingCountdownReferenced ==
    /\ [](\A k \in 1 .. Len(timer.tasks) :
              (timer.tasks[k].state = "sleeping" /\ ~timer.tasks[k].must_cancel)
              => /\ timer._task = Some(k)
                 /\ is_running(timer)
                 /\ \A j \in 1 .. Len(timer.tasks) :
                        (/\ timer.tasks[j].state \in {"sleeping", "in_callback"}
                         /\ ~timer.tasks[j].must_cancel)
                        => j = k)
    /\ [][/\ last' = "refresh"
             => \A k \in 1 .. Len(timer.tasks) :
                    ~task_done(timer.tasks[k]) => timer'.tasks[k].must_cancel
          /\ last' = "stop" => ~countdown_pending(timer')
          /\ (timer._task # None /\ timer'._task = None /\ last' # "stop")
             => LET k == Val(timer._task)
                IN  /\ timer.tasks[k].state = "in_callback"
                    /\ timer'.tasks[k].state = "finished"
                    /\ k = Len(timer.tasks)
         ]_vars

\* refresh() was called while the callback of the first window was running:
\* the first task has been interrupted without clearing the handle, and the
\* handle refers to the one pending countdown, the second
C37_Witness ==
    /\ last = "_run_cancelled"
    /\ Len(timer.tasks) = 2
    /\ timer.tasks[1].state = "cancelled"
    /\ Len(calls_of(timer, 1)) = 1
    /\ timer.tasks[2].state = "sleeping"
    /\ ~timer.tasks[2].must_cancel
    /\ timer._task = Some(2)
    /\ is_running(timer)

-----------------------------------------------------------------------------
(* Properties of the connection registry and its grace timer (checked under *)
(* Spec)                                                                    *)

\* C22: when a client disconnects, the grace timer is armed if and only if that
\* client was the last connected client and a session is active, and then the
\* disconnect time is the current time; a disconnect that leaves other clients
\* connected, or that happens with no active session, arms no timer and
\* records no disconnect time.
C22_DisconnectArmsIffLastAndActive ==
    [][last' = "disconnect"
       => IF clients' = {} /\ active(session)
          THEN /\ grace_timer_task = None
               /\ grace_timer_task' = Some(now + grace_period_seconds)
               /\ disconnect_time' = Some(now)
          ELSE /\ grace_timer_task' = None
               /\ disconnect_time' = None
               /\ UNCHANGED timer_vars
      ]_vars

\* the last client has left an active session at time 1: the timer is armed
C22_Witness ==
    /\ last = "disconnect"
    /\ clients = {}
    /\ active(session)
    /\ now = 1
    /\ disconnect_time = Some(1)
    /\ grace_timer_task = Some(1 + grace_period_seconds)

\* C23: if a client connects after the grace timer was armed and before it
\* expires, the timer is disarmed and the session is not auto-ended.  The
\* connect step clears the timer and the disconnect time and leaves the session
\* state and the rows alone; while any client is connected no timer is pending,
\* whatever the time, so the timer's end-session path runs only with an empty
\* registry; and an active session with a client connected has no end time in
\* its row.
C23_ReconnectDisarms ==
    /\ [](clients # {} =>
             /\ grace_timer_task = None
             /\ disconnect_time = None
             /\ (active(session) /\ Val(session.session_id) \in DOMAIN db_sessions)
                => db_sessions[Val(session.session_id)].ended_at = None)
    /\ [][/\ (last' = "connect" /\ clients' # clients /\ grace_timer_task # None)
             => /\ grace_timer_task' = None
                /\ disconnect_time' = None
                /\ session' = session
                /\ active(session')
                /\ UNCHANGED db_vars
          /\ last' = "_grace_period_timer" => clients = {}
         ]_vars

\* a client has just connected as the only one to a session that is active,
\* hence whose timer was pending: the timer is gone and the row has no end time
C23_Witness ==
    /\ last = "connect"
    /\ Cardinality(clients) = 1
    /\ active(session)
    /\ grace_timer_task = None
    /\ disconnect_time = None
    /\ Val(session.session_id) \in DOMAIN db_sessions
    /\ db_sessions[Val(session.session_id)].ended_at = None
    /\ \E c \in clients :
           sent[c] = <<StateMessage(_build_state_payload(session, db_session_items,
                                                         db_items))>>

C28_ConnectRegistersAndSendsSnapshot ==
    [][\A c \in Clients, role \in {"controller", "display"} :
           connect(c, role)
           => /\ clients' = clients \cup {c}
              /\ session' = session
              /\ sent'[c] = <<StateMessage(_build_state_payload(
                                  session', db_session_items', db_items'))>>
              /\ \A d \in Clients \ {c} : sent'[d] = <<>>
              /\ active(session)
                 => sent'[c][1].payload.session_id = session.session_id
      ]_vars

\* a second client has just joined a session that shows a text: it was sent the
\* session's id, words and cursor
C28_Witness ==
    /\ last = "connect"
    /\ clients = Clients
    /\ active(session)
    /\ session.words # <<>>
    /\ \E c \in clients :
           /\ Len(sent[c]) = 1
           /\ sent[c][1].type = "state"
           /\ sent[c][1].payload.session_id = session.session_id
           /\ sent[c][1].payload.words = session.words
           /\ sent[c][1].payload.current_word_index = session.current_word_index

-----------------------------------------------------------------------------
(* Properties of the inbound protocol (checked under Spec) *)

\* the message is outside the closed set of commands: its tag is not accepted,
\* or its tag requires a payload and it has none that fits
malformed_or_unknown(data) ==
    \/ data.type \notin {"start_session", "end_session", "add_item", "advance_word"}
    \/ data.type \in {"add_item", "advance_word"} /\ data.payload # "valid"

next_item_messages == {data \in Data : data.type = "next_item"}

\* C35: a client message of type next_item passes inbound validation and is
\* dispatched to the next_item operation, so that the client observes a
\* resulting state broadcast.
C35_NextItemIsAccepted ==
    [][/\ \A c \in Clients, data \in next_item_messages :
              ~_handle_message_invalid(c, data)
       /\ last' = "next_item" => \A c \in clients : sent'[c] # <<>>
      ]_vars

-----------------------------------------------------------------------------
(* Further properties of SessionState (checked under SpecSession) *)

C30_ForwardThenBackReturnsToStart ==
    [][(/\ last.op = "advance_word"
        /\ last.before = Some(0)
        /\ last.delta >= 0
        /\ session.words # <<>>
        /\ is_index(session)
        /\ last'.op = "advance_word"
        /\ last'.delta = 0 - last.delta)
       => session'.current_word_index = Some(0)
      ]_vars

\* two words: advance_word(2) from 0 was clamped to the last word, index 1, and
\* advance_word(-2) has brought the cursor back to 0
C30_Witness ==
    /\ last.op = "advance_word"
    /\ last.delta = -2
    /\ last.before = Some(1)
    /\ Len(session.words) = 2
    /\ session.current_word_index = Some(0)

inactive_shape(s) ==
    /\ s.session_id = None
    /\ s.current_session_item_id = None
    /\ s.queue = <<>>
    /\ s.words = <<>>
    /\ s.current_word_index = None

\* C32: a freshly created SessionState and a SessionState after reset() have
\* the same inactive shape: session_id absent, current_session_item_id absent,
\* queue empty, words empty and current_word_index None (absent, not 0).
C32_FreshAndResetAreInactive ==
    /\ inactive_shape(SessionState_new)
    /\ last.op \in {"init", "reset"} => inactive_shape(session)
    /\ inactive_shape(reset(session))

-----------------------------------------------------------------------------
(* Properties of the endpoints as coroutines (checked under SpecAsync) *)

\* the step resumes a coroutine from the send it was suspended in
resumed == last' \in {"send_json", "send_json_failed"}

\* the state message of the session state and rows of the moment
snapshot == StateMessage(_build_state_payload(session, db_session_items, db_items))

\* C25: session state has a single writer at a time, although each handler
\* suspends while awaiting client sends.  A step that changes the session
\* state or the rows is the whole of one command, taken from an endpoint that
\* was in no handler, or the whole of the timer's end-session, which runs with
\* no handler suspended; the snapshot a command fans out is the state that
\* command left, it is fixed while the handler is suspended, and it is what
\* every one of its sends delivers, whatever other commands have written
\* meanwhile; a resumed handler writes neither session state nor rows.
C25_SingleWriter ==
    /\ [](/\ \A c \in Clients : fanout[c] # None => c \in clients
          /\ grace_timer_task # None
             => clients = {} /\ \A c \in Clients : fanout[c] = None)
    /\ [][/\ resumed => UNCHANGED <<session, db_vars>>
          /\ resumed =>
                 \A x \in Clients :
                     sent'[x] # <<>> =>
                         \E c \in Clients :
                             /\ fanout[c] # None
                             /\ fanout'[c] # fanout[c]
                             /\ Val(fanout[c]).to = x
                             /\ sent'[x] = <<Val(fanout[c]).message>>
          /\ \A c \in Clients :
                 /\ (fanout[c] = None /\ fanout'[c] # None)
                    => Val(fanout'[c]).message = snapshot'
                 /\ (fanout[c] # None /\ fanout'[c] # None)
                    => Val(fanout'[c]).message = Val(fanout[c]).message
          /\ (~resumed /\ <<session, db_vars>>' # <<session, db_vars>>)
             => \/ /\ last' = "_grace_period_timer"
                   /\ UNCHANGED fanout
                \/ \E c \in clients :
                       /\ fanout[c] = None
                       /\ fanout'[c] # None
                       /\ \A d \in Clients \ {c} : fanout'[d] = fanout[d]
         ]_vars

\* both endpoints are suspended in the fan-out of their own command, each
\* holding the snapshot its command left; the earlier one is no longer the
\* current state
C25_Witness ==
    /\ \A c \in Clients :
           /\ fanout[c] # None
           /\ Val(fanout[c]).over = "clients"
    /\ \E c, d \in Clients :
           /\ Val(fanout[c]).message # Val(fanout[d]).message
           /\ Val(fanout[c]).message # snapshot
           /\ Val(fanout[d]).message = snapshot

\* C26: a broadcast sends the same snapshot to every client in the registry,
\* and a send failure for one client does not prevent delivery to the
\* remaining clients and does not abort the command that triggered the
\* broadcast.  Every send of a loop delivers the loop's one message; whether
\* the send succeeded or failed, session state and rows stay as the command
\* left them and, the registry being the one the loop began with, no
\* connection is ended and the loop goes on to a client it has not passed,
\* with the same message, until it has passed every client of the registry.
C26_SendFailureIsIsolated ==
    [][\A c \in Clients :
           (/\ resumed
            /\ fanout[c] # None
            /\ fanout'[c] # fanout[c]
            /\ Val(fanout[c]).over = "clients")
           => LET b == Val(fanout[c])
                  passed == b.visited \cup {b.to}
              IN  /\ UNCHANGED <<session, db_vars>>
                  /\ last' = "send_json"
                     => sent' = [x \in Clients |->
                                    IF x = b.to THEN <<b.message>> ELSE <<>>]
                  /\ last' = "send_json_failed" => sent' = NoSend
                  /\ Cardinality(clients) = b.used
                     => /\ clients' = clients
                        /\ IF clients \subseteq passed
                           THEN fanout'[c] = None
                           ELSE /\ fanout'[c] # None
                                /\ Val(fanout'[c]).to \in clients \ passed
                                /\ Val(fanout'[c]).visited = passed
                                /\ Val(fanout'[c]).message = b.message
      ]_vars

\* a send has just failed, and the only loop there is has gone on to its second
\* client; both clients are still connected to the active session
C26_Witness ==
    /\ last = "send_json_failed"
    /\ sent = NoSend
    /\ clients = Clients
    /\ active(session)
    /\ \E c \in Clients :
           /\ fanout[c] # None
           /\ Val(fanout[c]).over = "clients"
           /\ Cardinality(Val(fanout[c]).visited) = 1
           /\ Val(fanout[c]).to \notin Val(fanout[c]).visited
           /\ Val(fanout[c]).message = snapshot
           /\ \A d \in Clients \ {c} : fanout[d] = None

\* C36: in every reachable state, if a grace-period countdown is pending then
\* a session is active and no client is registered; equivalently, while at
\* least one client is connected no countdown is pending, so the expiry path
\* never ends a session that has a connected client.
C36_CountdownOnlyWhileAbandoned ==
    /\ [](has_active_grace_timer =>
              /\ active(session)
              /\ clients = {}
              /\ disconnect_time # None)
    /\ [](clients # {} => ~has_active_grace_timer)
    /\ [][last' = "_grace_period_timer" =>
              /\ has_active_grace_timer
              /\ clients = {}
              /\ clients' = {}
              /\ sent' = NoSend
              /\ ~active(session')
         ]_vars

\* the countdown has run out with nobody connected and has ended the session,
\* recording the time of the disconnect, one tick earlier
C36_Witness ==
    /\ last = "_grace_period_timer"
    /\ clients = {}
    /\ ~active(session)
    /\ ~has_active_grace_timer
    /\ now = 1
    /\ \E id \in DOMAIN db_sessions : db_sessions[id].ended_at = Some(0)

\* the suspended send loops that hold the current state and have not passed x
due_current(x) ==
    {d \in Clients :
        /\ fanout[d] # None
        /\ Val(fanout[d]).message = snapshot
        /\ x \notin Val(fanout[d]).visited}

\* C39: clients stay synchronized under interleaved broadcasts: when a second
\* command is processed while the first command's broadcast is suspended
\* part-way through its fan-out, then once all pending sends have completed the
\* last snapshot received by every connected client equals the current session
\* state (no client is left with an older snapshot delivered after a newer
\* one).  So a fan-out that goes on to send a snapshot other than the current
\* state to a client does so only while some pending fan-out of the current
\* state has not passed that client.
C39_ClientsEndUpWithCurrentState ==
    [][\A c, x \in Clients :
           (/\ resumed
            /\ fanout[c] # None
            /\ fanout'[c] # None
            /\ Val(fanout[c]).to # x
            /\ Val(fanout'[c]).to = x
            /\ Val(fanout'[c]).message # snapshot')
           => due_current(x)' # {}
      ]_vars

\* C40: a client connecting or disconnecting while a broadcast is suspended
\* between two sends (the registry changes during the fan-out loop) does not
\* abort the broadcast for the clients not yet served and does not terminate
\* the connection of the client whose command triggered the broadcast: when
\* the awaited send of a command's fan-out returns normally and the registry
\* has another size than when the loop began, the commanding client stays
\* registered and the loop goes on while a registered client is unserved.
C40_RegistryChangeDoesNotAbortBroadcast ==
    [][\A c \in Clients :
           (/\ last' = "send_json"
            /\ fanout[c] # None
            /\ fanout'[c] # fanout[c]
            /\ Val(fanout[c]).over = "clients"
            /\ Cardinality(clients) # Val(fanout[c]).used
            /\ c \in clients)
           => /\ c \in clients'
              /\ clients \ (Val(fanout[c]).visited \cup {Val(fanout[c]).to}) # {}
                     => fanout'[c] # None
      ]_vars

-----------------------------------------------------------------------------
(* Properties of the persisted session records (checked under Spec) *)

\* the session records that have no end time
unended_sessions == {id \in DOMAIN db_sessions : db_sessions[id].ended_at = None}

====
